---- MODULE Spec2Model ----
(***************************************************************************)
(* Model of scripts/build_extension.py: the resolver that computes the set *)
(* of repository-relative paths an unpacked extension needs, and the build *)
(* that clears the output directory, writes the manifest and copies every  *)
(* resolved path.                                                          *)
(*                                                                         *)
(* Strings are TLA+ strings; Chars gives the characters of each string the *)
(* model uses, so that substring tests, path splitting, glob matching and  *)
(* sorting are computed character by character as the code computes them.  *)
(* A path is the sequence of its components (pathlib's parts); an absolute *)
(* path starts at the filesystem root, a relative one at REPO_ROOT.        *)
(* The filesystem is a function from the absolute paths of the files that  *)
(* exist to a tag for their content; a directory exists when a file lies   *)
(* beneath it.                                                             *)
(***************************************************************************)
EXTENDS Integers, Sequences, FiniteSets, TLC

VARIABLES fs, manifestDoc, htmlAttrs, entry, mode, output, pc, manifest,
          resources, todo, missing, error, stderr, exitCode, builds, runs, fs0

vars == <<fs, manifestDoc, htmlAttrs, entry, mode, output, pc, manifest,
          resources, todo, missing, error, stderr, exitCode, builds, runs, fs0>>

\* ---------------------------------------------------------------- bounds
\* Number of consecutive invocations of the build on the same repository.
MaxBuilds == 2

\* Number of the optional repository files that may be absent at once.
MaxAbsent == 2

\* ------------------------------------------------------------ characters
\* The characters of every string of the model (component names, manifest
\* values, glob patterns and HTML attribute values).
Chars ==
       "repo" :> <<"r", "e", "p", "o">> @@
       "repo2" :> <<"r", "e", "p", "o", "2">> @@
       "out" :> <<"o", "u", "t">> @@
       "extension_unpacked" :> <<"e", "x", "t", "e", "n", "s", "i", "o", "n", "_", "u", "n", "p", "a", "c", "k", "e", "d">> @@
       "manifest.json" :> <<"m", "a", "n", "i", "f", "e", "s", "t", ".", "j", "s", "o", "n">> @@
       "bg.js" :> <<"b", "g", ".", "j", "s">> @@
       "content.js" :> <<"c", "o", "n", "t", "e", "n", "t", ".", "j", "s">> @@
       "panel" :> <<"p", "a", "n", "e", "l">> @@
       "index.html" :> <<"i", "n", "d", "e", "x", ".", "h", "t", "m", "l">> @@
       "assets" :> <<"a", "s", "s", "e", "t", "s">> @@
       "panel.abc.js" :> <<"p", "a", "n", "e", "l", ".", "a", "b", "c", ".", "j", "s">> @@
       "panel.abc.css" :> <<"p", "a", "n", "e", "l", ".", "a", "b", "c", ".", "c", "s", "s">> @@
       "side-panel" :> <<"s", "i", "d", "e", "-", "p", "a", "n", "e", "l">> @@
       "app.js" :> <<"a", "p", "p", ".", "j", "s">> @@
       "app.css" :> <<"a", "p", "p", ".", "c", "s", "s">> @@
       "options" :> <<"o", "p", "t", "i", "o", "n", "s">> @@
       "icon-32.png" :> <<"i", "c", "o", "n", "-", "3", "2", ".", "p", "n", "g">> @@
       "icon-128.png" :> <<"i", "c", "o", "n", "-", "1", "2", "8", ".", "p", "n", "g">> @@
       "icons" :> <<"i", "c", "o", "n", "s">> @@
       "a" :> <<"a">> @@
       "b" :> <<"b">> @@
       "x.css" :> <<"x", ".", "c", "s", "s">> @@
       "y.css" :> <<"y", ".", "c", "s", "s">> @@
       "agent_js" :> <<"a", "g", "e", "n", "t", "_", "j", "s">> @@
       "agent" :> <<"a", "g", "e", "n", "t">> @@
       "_locales" :> <<"_", "l", "o", "c", "a", "l", "e", "s">> @@
       "boot.js" :> <<"b", "o", "o", "t", ".", "j", "s">> @@
       "en" :> <<"e", "n">> @@
       "m.json" :> <<"m", ".", "j", "s", "o", "n">> @@
       "stale.txt" :> <<"s", "t", "a", "l", "e", ".", "t", "x", "t">> @@
       "x.js" :> <<"x", ".", "j", "s">> @@
       "z.js" :> <<"z", ".", "j", "s">> @@
       "gone.js" :> <<"g", "o", "n", "e", ".", "j", "s">> @@
       ".." :> <<".", ".">> @@
       "panel/index.html" :> <<"p", "a", "n", "e", "l", "/", "i", "n", "d", "e", "x", ".", "h", "t", "m", "l">> @@
       "side-panel/index.html" :> <<"s", "i", "d", "e", "-", "p", "a", "n", "e", "l", "/", "i", "n", "d", "e", "x", ".", "h", "t", "m", "l">> @@
       "icons/icon-128.png" :> <<"i", "c", "o", "n", "s", "/", "i", "c", "o", "n", "-", "1", "2", "8", ".", "p", "n", "g">> @@
       "assets/panel.abc.js" :> <<"a", "s", "s", "e", "t", "s", "/", "p", "a", "n", "e", "l", ".", "a", "b", "c", ".", "j", "s">> @@
       "assets/app.js" :> <<"a", "s", "s", "e", "t", "s", "/", "a", "p", "p", ".", "j", "s">> @@
       "assets/gone.js" :> <<"a", "s", "s", "e", "t", "s", "/", "g", "o", "n", "e", ".", "j", "s">> @@
       "../bg.js" :> <<".", ".", "/", "b", "g", ".", "j", "s">> @@
       "../y.css" :> <<".", ".", "/", "y", ".", "c", "s", "s">> @@
       "https://cdn/x.js" :> <<"h", "t", "t", "p", "s", ":", "/", "/", "c", "d", "n", "/", "x", ".", "j", "s">> @@
       "data:x" :> <<"d", "a", "t", "a", ":", "x">> @@
       "../../x.js" :> <<".", ".", "/", ".", ".", "/", "x", ".", "j", "s">> @@
       "../../repo2/z.js" :> <<".", ".", "/", ".", ".", "/", "r", "e", "p", "o", "2", "/", "z", ".", "j", "s">> @@
       "*.css" :> <<"*", ".", "c", "s", "s">> @@
       "*.png" :> <<"*", ".", "p", "n", "g">> @@
       "icons/*.png" :> <<"i", "c", "o", "n", "s", "/", "*", ".", "p", "n", "g">> @@
       "?.css" :> <<"?", ".", "c", "s", "s">> @@
       "*.js" :> <<"*", ".", "j", "s">> @@
       "/x.js" :> <<"/", "x", ".", "j", "s">> @@
       "" :> <<>>

\* The characters in use, in code point order (Python compares str by code point).
Alphabet == <<"*", "-", ".", "/", "1", "2", "3", "8", ":", "?", "_", "a", "b", "c", "d", "e", "f", "g", "h", "i", "j", "k", "l", "m", "n", "o", "p", "r", "s", "t", "u", "x", "y", "z">>

Ord(c) == CHOOSE k \in 1..Len(Alphabet) : Alphabet[k] = c

\* The string with the given characters.
Str(cs) == CHOOSE n \in DOMAIN Chars : Chars[n] = cs

Range(s) == {s[k] : k \in 1..Len(s)}

Last(s) == s[Len(s)]

\* haystack.startswith(needle), on character or component sequences
StartsWith(s, pre) ==
    /\ Len(pre) <= Len(s)
    /\ SubSeq(s, 1, Len(pre)) = pre

\* needle in haystack
Contains(s, sub) ==
    \E k \in 1..(Len(s) - Len(sub) + 1) : SubSeq(s, k, k + Len(sub) - 1) = sub

RECURSIVE SplitSlash(_)
\* The runs of characters between "/" separators (empty runs included).
SplitSlash(cs) ==
    IF \A k \in 1..Len(cs) : cs[k] # "/" THEN <<cs>>
    ELSE LET k == CHOOSE j \in 1..Len(cs) :
                      cs[j] = "/" /\ \A h \in 1..(j - 1) : cs[h] # "/"
         IN <<SubSeq(cs, 1, k - 1)>> \o SplitSlash(SubSeq(cs, k + 1, Len(cs)))

RECURSIVE DropEmptyAndDot(_)
DropEmptyAndDot(runs_) ==
    IF runs_ = <<>> THEN <<>>
    ELSE IF Head(runs_) = <<>> \/ Head(runs_) = <<".">>
         THEN DropEmptyAndDot(Tail(runs_))
         ELSE <<Str(Head(runs_))>> \o DropEmptyAndDot(Tail(runs_))

\* Path(s).parts for a relative path string: pathlib drops empty and "."
\* components and keeps "..".
PathOf(s) == DropEmptyAndDot(SplitSlash(Chars[s]))

\* s names an absolute path
IsAbsolute(s) == Len(Chars[s]) > 0 /\ Chars[s][1] = "/"

RECURSIVE Resolve(_, _)
\* Path.resolve() without symbolic links: ".." removes the component before
\* it and is dropped at the filesystem root.
Resolve(done, rest) ==
    IF rest = <<>> THEN done
    ELSE IF Head(rest) = ".."
         THEN Resolve(IF done = <<>> THEN <<>> ELSE SubSeq(done, 1, Len(done) - 1),
                      Tail(rest))
         ELSE Resolve(Append(done, Head(rest)), Tail(rest))

RECURSIVE PathStr(_)
\* str(path) of an absolute path: "/" and the component's characters, for each
PathStr(p) ==
    IF p = <<>> THEN <<>>
    ELSE <<"/">> \o Chars[Head(p)] \o PathStr(Tail(p))

\* path.name
Name(p) == IF p = <<>> THEN "" ELSE Last(p)

\* path.parent
Parent(p) == SubSeq(p, 1, Len(p) - 1)

\* The repository root: Path(__file__).resolve().parent.parent
REPO_ROOT == <<"repo">>

MANIFEST_PATH == REPO_ROOT \o <<"manifest.json">>

\* p.relative_to(REPO_ROOT) succeeds (otherwise ValueError)
InRepo(p) == StartsWith(p, REPO_ROOT)

relative_to(p) == SubSeq(p, Len(REPO_ROOT) + 1, Len(p))

\* -------------------------------------------------------------- ordering
RECURSIVE CharsLess(_, _)
\* a < b for Python str: lexicographic by code point
CharsLess(a, b) ==
    IF b = <<>> THEN FALSE
    ELSE IF a = <<>> THEN TRUE
    ELSE IF Head(a) = Head(b) THEN CharsLess(Tail(a), Tail(b))
    ELSE Ord(Head(a)) < Ord(Head(b))

RECURSIVE PathLess(_, _)
\* PurePath.__lt__: the lists of components compared lexicographically
PathLess(p, q) ==
    IF q = <<>> THEN FALSE
    ELSE IF p = <<>> THEN TRUE
    ELSE IF Head(p) = Head(q) THEN PathLess(Tail(p), Tail(q))
    ELSE CharsLess(Chars[Head(p)], Chars[Head(q)])

RECURSIVE sorted(_)
\* sorted(set of paths)
sorted(S) ==
    IF S = {} THEN <<>>
    ELSE LET m == CHOOSE x \in S : \A y \in S \ {x} : PathLess(x, y)
         IN <<m>> \o sorted(S \ {m})

\* ------------------------------------------------------------ filesystem
is_file(p) == p \in DOMAIN fs

is_dir(p) == \E f \in DOMAIN fs : Len(f) > Len(p) /\ StartsWith(f, p)

exists(p) == is_file(p) \/ is_dir(p)

\* dir.rglob("*") filtered by is_file(): every file beneath dir
rglob(dir) == {f \in DOMAIN fs : Len(f) > Len(dir) /\ StartsWith(f, dir)}

\* shutil.rmtree(dir): the filesystem without dir and everything beneath it
rmtree(dir) == [f \in {g \in DOMAIN fs : ~StartsWith(g, dir)} |-> fs[f]]

\* ---------------------------------------------------------------- fnmatch
RECURSIVE fnmatch(_, _)
\* fnmatch.fnmatch(name, pattern) for patterns of "*", "?" and literal
\* characters: the whole name must match (no bracket expressions are used).
fnmatch(name, pat) ==
    IF pat = <<>> THEN name = <<>>
    ELSE IF Head(pat) = "*"
         THEN \/ fnmatch(name, Tail(pat))
              \/ name # <<>> /\ fnmatch(Tail(name), pat)
    ELSE IF Head(pat) = "?"
         THEN name # <<>> /\ fnmatch(Tail(name), Tail(pat))
    ELSE name # <<>> /\ Head(name) = Head(pat) /\ fnmatch(Tail(name), Tail(pat))

\* any(ch in pattern for ch in ["*", "?"])
HasWildcard(pattern) == \E k \in 1..Len(Chars[pattern]) : Chars[pattern][k] \in {"*", "?"}

\* ----------------------------------------------------------- placeholder
\* TRANSPARENT_32_PX_PNG_BASE64: its characters of the base64 alphabet and
\* its trailing "=" characters.
B64DataChars == 230

B64PadChars == 1

\* base64.b64decode(s) returns (instead of raising binascii.Error): the data
\* characters fill whole groups of four, or the padding completes the last one.
b64decode_ok(data, pads) ==
    \/ (data % 4) = 0
    \/ (data % 4) >= 2 /\ (data % 4) + pads >= 4

\* The two file names that get a placeholder instead of an error.
PlaceholderNames == {"icon-32.png", "icon-128.png"}

\* ------------------------------------------------------------- manifests
\* A manifest field that is absent is "" (a path) or <<>> (a list).
ScenarioManifest ==
    [service_worker |-> "bg.js", content_scripts |-> << <<"content.js">> >>,
     default_path |-> "panel/index.html", default_icon |-> "",
     icons |-> <<"icon-32.png">>, web_accessible_resources |-> <<>>]

StyleManifest ==
    [service_worker |-> "bg.js", content_scripts |-> << <<"content.js">> >>,
     default_path |-> "side-panel/index.html", default_icon |-> "icon-32.png",
     icons |-> <<"icon-32.png", "icons/icon-128.png">>,
     web_accessible_resources |-> << <<"*.css", "y.css">> >>]

IconDirManifest ==
    [service_worker |-> "bg.js", content_scripts |-> <<>>,
     default_path |-> "side-panel/index.html", default_icon |-> "",
     icons |-> <<"icon-32.png">>,
     web_accessible_resources |-> << <<"icons/*.png">>, <<"?.css">> >>]

BrokenManifest ==
    [service_worker |-> "gone.js", content_scripts |-> << <<"content.js">>, <<"z.js">> >>,
     default_path |-> "", default_icon |-> "",
     icons |-> <<>>, web_accessible_resources |-> << <<"*.js">> >>]

Manifests == {ScenarioManifest, StyleManifest, IconDirManifest, BrokenManifest}

\* The manifest variable before json.load has returned.
NoManifest ==
    [service_worker |-> "", content_scripts |-> <<>>, default_path |-> "",
     default_icon |-> "", icons |-> <<>>, web_accessible_resources |-> <<>>]

\* ---------------------------------------------------------- repositories
SidePanelHtml == REPO_ROOT \o <<"side-panel", "index.html">>

OptionsHtml == REPO_ROOT \o <<"options", "index.html">>

PanelHtml == REPO_ROOT \o <<"panel", "index.html">>

\* Files of the repository that every configuration but the scenario has.
CoreFiles ==
    { <<"bg.js">>, <<"side-panel", "assets", "app.js">>,
      <<"side-panel", "assets", "app.css">>, <<"options", "index.html">>,
      <<"icons", "icon-128.png">>, <<"a", "b", "x.css">>,
      <<"agent_js", "boot.js">>, <<"_locales", "en", "m.json">> }

\* Files that a configuration may lack.
OptionalFiles ==
    { <<"icon-32.png">>, <<"y.css">>, <<"content.js">>, <<"side-panel", "index.html">> }

\* The repository of the end-to-end scenario (without its manifest.json).
ScenarioFiles ==
    { <<"bg.js">>, <<"content.js">>, <<"panel", "index.html">>,
      <<"panel", "assets", "panel.abc.js">>, <<"panel", "assets", "panel.abc.css">> }

Repositories ==
    {ScenarioFiles} \cup
    {CoreFiles \cup (OptionalFiles \ A) :
        A \in {B \in SUBSET OptionalFiles : Cardinality(B) <= MaxAbsent}}

\* A file outside the repository, next to it.
OutsideFile == <<"x.js">>

\* The src and href values the attribute pattern finds in side-panel/index.html.
GoodAttrs ==
    <<"assets/app.js", "../bg.js", "https://cdn/x.js", "data:x",
      "../../x.js", "../../repo2/z.js", "/x.js">>

BadAttrs == GoodAttrs \o <<"assets/gone.js">>

HtmlTexts ==
    { [h \in {SidePanelHtml, OptionsHtml, PanelHtml} |->
          IF h = SidePanelHtml THEN sp
          ELSE IF h = OptionsHtml THEN <<"../y.css">>
          ELSE <<"assets/panel.abc.js">>] : sp \in {GoodAttrs, BadAttrs} }

OutsideOutput == <<"out">>

InsideOutput == REPO_ROOT \o <<"extension_unpacked">>

\* The filesystem with the files of S (absolute paths) added with content c
WithFiles(f, S, c) == [p \in DOMAIN f \cup S |-> IF p \in S THEN c ELSE f[p]]

\* -------------------------------------------------------------- resolver
\* The paths of a list of path strings
Paths(strs) == {PathOf(strs[k]) : k \in 1..Len(strs)}

\* Every file beneath REPO_ROOT / name, relative to REPO_ROOT, when that
\* directory exists.
FilesUnder(dir) ==
    IF exists(REPO_ROOT \o dir) /\ is_dir(REPO_ROOT \o dir)
    THEN {relative_to(f) : f \in rglob(REPO_ROOT \o dir)}
    ELSE {}

collect_minimal_resources(m) ==
    (IF m.service_worker # "" THEN {PathOf(m.service_worker)} ELSE {})
    \cup UNION {Paths(m.content_scripts[k]) : k \in 1..Len(m.content_scripts)}
    \cup (IF m.default_path # "" THEN {PathOf(m.default_path)} ELSE {})
    \cup (IF m.default_icon # "" THEN {PathOf(m.default_icon)} ELSE {})
    \cup Paths(m.icons)
    \cup FilesUnder(<<"_locales">>)

include_extra_runtime_dirs(res) ==
    res \cup FilesUnder(<<"agent_js">>) \cup FilesUnder(<<"agent">>)

\* (html_path.parent / raw).resolve()
Candidate(html_path, raw) ==
    Resolve(<<>>, (IF IsAbsolute(raw) THEN <<>> ELSE Parent(html_path)) \o PathOf(raw))

\* The value is skipped before it is resolved: empty, with a scheme
\* separator, or a data URI (the values carry no surrounding white space,
\* so raw.strip() is raw).
Skipped(raw) ==
    \/ Len(Chars[raw]) = 0
    \/ Contains(Chars[raw], <<":", "/", "/">>)
    \/ StartsWith(Chars[raw], <<"d", "a", "t", "a", ":">>)

\* Recorded, were the branch for references to files that do not exist left out.
RecordedExistingOnly(candidate) == is_file(candidate) /\ InRepo(candidate)

\* The candidate is added to refs: an existing file inside the repository,
\* or a path that is no file, whose string starts with the root's string and
\* that relative_to accepts.
Recorded(candidate) ==
    IF is_file(candidate) THEN InRepo(candidate)
    ELSE StartsWith(PathStr(candidate), PathStr(REPO_ROOT)) /\ InRepo(candidate)

extract_html_asset_refs(html_path) ==
    IF ~exists(html_path) THEN {}
    ELSE {relative_to(Candidate(html_path, raw)) :
            raw \in {r \in Range(htmlAttrs[html_path]) :
                        ~Skipped(r) /\ Recorded(Candidate(html_path, r))}}

\* The entry HTML files that exist: side panel, then options page
entry_files == {h \in {SidePanelHtml, OptionsHtml} : exists(h)}

\* REPO_ROOT / Path(*parts[: idx + 1]) for idx = parts.index("assets"),
\* relative to REPO_ROOT
AssetDir(ref) ==
    LET idx == CHOOSE k \in 1..Len(ref) :
                   ref[k] = "assets" /\ \A j \in 1..(k - 1) : ref[j] # "assets"
    IN SubSeq(ref, 1, idx)

\* include_side_panel_and_options_assets, were only the referenced files added.
include_referenced_files_only(res) ==
    res \cup {relative_to(h) : h \in entry_files}
        \cup UNION {extract_html_asset_refs(h) : h \in entry_files}

include_side_panel_and_options_assets(res) ==
    LET refs == UNION {extract_html_asset_refs(h) : h \in entry_files}
        asset_dirs == {AssetDir(ref) : ref \in {r \in refs : "assets" \in Range(r)}}
    IN res \cup {relative_to(h) : h \in entry_files}
           \cup refs
           \cup UNION {FilesUnder(adir) : adir \in asset_dirs}

\* The pattern without its directory segments: what follows its last "/"
Bare(pattern) == Str(Last(SplitSlash(Chars[pattern])))

\* collect_pattern, were only the files directly in REPO_ROOT scanned.
collect_pattern_top_level(pattern) ==
    IF HasWildcard(pattern)
    THEN {relative_to(c) : c \in {f \in rglob(REPO_ROOT) :
                                     /\ Len(f) = Len(REPO_ROOT) + 1
                                     /\ fnmatch(Chars[Name(f)], Chars[pattern])}}
    ELSE IF exists(REPO_ROOT \o PathOf(pattern)) THEN {PathOf(pattern)} ELSE {}

\* collect_pattern, were the base name matched against the base of the pattern.
collect_pattern_base_of_pattern(pattern) ==
    IF HasWildcard(pattern)
    THEN {relative_to(c) : c \in {f \in rglob(REPO_ROOT) :
                                     fnmatch(Chars[Name(f)], Chars[Bare(pattern)])}}
    ELSE IF exists(REPO_ROOT \o PathOf(pattern)) THEN {PathOf(pattern)} ELSE {}

\* The files one web-accessible-resource entry adds (the body of the loop
\* over patterns).
collect_pattern(pattern) ==
    IF HasWildcard(pattern)
    THEN {relative_to(c) : c \in {f \in rglob(REPO_ROOT) :
                                     fnmatch(Chars[Name(f)], Chars[pattern])}}
    ELSE IF exists(REPO_ROOT \o PathOf(pattern)) THEN {PathOf(pattern)} ELSE {}

\* patterns.extend(entry.get("resources", [])) for every entry
Patterns(m) ==
    UNION {Range(m.web_accessible_resources[k]) :
              k \in 1..Len(m.web_accessible_resources)}

collect_full_resources(m, minimal) ==
    minimal \cup UNION {collect_pattern(pattern) : pattern \in Patterns(m)}

\* minimal_resources of build, after the two include_ steps
minimal_resources(m) ==
    include_side_panel_and_options_assets(
        include_extra_runtime_dirs(collect_minimal_resources(m)))

\* ------------------------------------------------------------------ state
BuildErrorMsg(kind, paths) == [kind |-> kind, paths |-> paths]

Terminal == {"Success", "Failed", "Crashed", "Usage"}

\* The state of a process that has just been started on filesystem f.
Fresh(f) ==
    /\ pc = (IF entry = "main" THEN "Main" ELSE "Start")
    /\ manifest = NoManifest
    /\ resources = {}
    /\ todo = <<>>
    /\ missing = <<>>
    /\ error = <<>>
    /\ stderr = <<>>
    /\ exitCode = -1
    /\ fs0 = f

Init ==
    \E repo \in Repositories, stale \in BOOLEAN, mfile \in {"json", "badjson", "absent"} :
        /\ manifestDoc \in Manifests
        /\ mfile # "json" =>
              /\ manifestDoc = StyleManifest
              /\ repo = CoreFiles \cup OptionalFiles
        /\ htmlAttrs \in HtmlTexts
        /\ entry \in {"main", "build"}
        /\ mode \in {"minimal", "full", "bogus"}
        /\ output \in {OutsideOutput, InsideOutput}
        /\ fs = LET src == WithFiles(<<>>, {REPO_ROOT \o r : r \in repo} \cup {OutsideFile}, "data")
                    man == IF mfile = "absent" THEN src
                           ELSE WithFiles(src, {MANIFEST_PATH}, mfile)
                IN IF stale THEN WithFiles(man, {output \o <<"stale.txt">>}, "data")
                   ELSE man
        /\ builds = 1
        /\ runs = <<>>
        /\ Fresh(fs)

\* ---------------------------------------------------------------- actions
args == <<manifestDoc, htmlAttrs, entry, mode, output>>

\* raise BuildError(...) inside build: main catches it, prints it to the
\* error stream and returns 1; a direct caller of build receives it.
Raise(kind, paths) ==
    /\ pc' = "Failed"
    /\ error' = <<BuildErrorMsg(kind, paths)>>
    /\ IF entry = "main"
       THEN /\ stderr' = <<BuildErrorMsg(kind, paths)>>
            /\ exitCode' = 1
       ELSE UNCHANGED <<stderr, exitCode>>

\* An exception that is no BuildError leaves build and main: the
\* interpreter prints the traceback and the process exits with 1.
Crash(kind) ==
    /\ pc' = "Crashed"
    /\ error' = error
    /\ IF entry = "main"
       THEN /\ stderr' = <<BuildErrorMsg(kind, <<>>)>>
            /\ exitCode' = 1
       ELSE UNCHANGED <<stderr, exitCode>>

\* main: parse_args. argparse rejects a --mode outside its choices, prints
\* the usage and exits with status 2; build is not called.
ParseArgs ==
    /\ pc = "Main"
    /\ IF mode \in {"minimal", "full"}
       THEN /\ pc' = "Start"
            /\ UNCHANGED <<stderr, exitCode>>
       ELSE /\ pc' = "Usage"
            /\ stderr' = <<BuildErrorMsg("usage: invalid choice", <<>>)>>
            /\ exitCode' = 2
    /\ UNCHANGED <<fs, args, manifest, resources, todo, missing, error, builds, runs, fs0>>

\* build: load_manifest(MANIFEST_PATH)
LoadManifest ==
    /\ pc = "Start"
    /\ IF ~exists(MANIFEST_PATH)
       THEN Raise("manifest.json not found", <<>>) /\ UNCHANGED manifest
       ELSE IF fs[MANIFEST_PATH] # "json"
       THEN Raise("Invalid manifest.json", <<>>) /\ UNCHANGED manifest
       ELSE /\ manifest' = manifestDoc
            /\ pc' = "ManifestLoaded"
            /\ UNCHANGED <<error, stderr, exitCode>>
    /\ UNCHANGED <<fs, args, resources, todo, missing, builds, runs, fs0>>

\* build: the minimal set, the two include_ steps, then the mode
CollectResources ==
    /\ pc = "ManifestLoaded"
    /\ IF mode = "minimal"
       THEN /\ resources' = minimal_resources(manifest)
            /\ pc' = "ResourcesCollected"
            /\ UNCHANGED <<error, stderr, exitCode>>
       ELSE IF mode = "full"
       THEN /\ resources' = collect_full_resources(manifest, minimal_resources(manifest))
            /\ pc' = "ResourcesCollected"
            /\ UNCHANGED <<error, stderr, exitCode>>
       ELSE /\ resources' = minimal_resources(manifest)
            /\ Raise("Unknown mode", <<>>)
    /\ UNCHANGED <<fs, args, manifest, todo, missing, builds, runs, fs0>>

\* build: remove and recreate the output directory, write the manifest copy
\* and start the loop over sorted(all_resources)
ClearOutput ==
    /\ pc = "ResourcesCollected"
    /\ fs' = WithFiles(rmtree(output), {output \o <<"manifest.json">>}, "json")
    /\ todo' = sorted(resources)
    /\ missing' = <<>>
    /\ pc' = "OutputCleared"
    /\ UNCHANGED <<args, manifest, resources, error, stderr, exitCode, builds, runs, fs0>>

\* One iteration of the loop of build: the existence check, then
\* copy_resource(rel, output)
CopyNext ==
    /\ pc = "OutputCleared"
    /\ todo # <<>>
    /\ LET rel == Head(todo)
           src == REPO_ROOT \o rel
           dest == output \o rel
       IN /\ missing' = IF ~exists(src) /\ Name(rel) \notin PlaceholderNames
                        THEN Append(missing, rel) ELSE missing
          /\ todo' = Tail(todo)
          /\ IF ~exists(src)
             THEN IF Name(rel) \in PlaceholderNames
                  THEN IF b64decode_ok(B64DataChars, B64PadChars)
                       THEN /\ fs' = WithFiles(fs, {dest}, "png32")
                            /\ UNCHANGED <<pc, error, stderr, exitCode>>
                       ELSE /\ fs' = WithFiles(fs, {dest}, "empty")
                            /\ Crash("binascii.Error: Incorrect padding")
                  ELSE UNCHANGED <<fs, pc, error, stderr, exitCode>>
             ELSE IF is_file(src)
                  THEN /\ fs' = WithFiles(fs, {dest}, fs[src])
                       /\ UNCHANGED <<pc, error, stderr, exitCode>>
                  ELSE /\ fs' = fs
                       /\ Crash("IsADirectoryError")
    /\ UNCHANGED <<args, manifest, resources, builds, runs, fs0>>

\* build: the loop is exhausted
EndCopy ==
    /\ pc = "OutputCleared"
    /\ todo = <<>>
    /\ pc' = "FilesCopied"
    /\ UNCHANGED <<fs, args, manifest, resources, todo, missing, error, stderr,
                   exitCode, builds, runs, fs0>>

\* build: raise the aggregated error or print [done]; main returns 1 or 0
Finish ==
    /\ pc = "FilesCopied"
    /\ IF missing # <<>>
       THEN Raise("Missing referenced asset(s)", missing)
       ELSE /\ pc' = "Success"
            /\ exitCode' = IF entry = "main" THEN 0 ELSE exitCode
            /\ UNCHANGED <<error, stderr>>
    /\ UNCHANGED <<fs, args, manifest, resources, todo, missing, builds, runs, fs0>>

\* The same command is run again on the filesystem the last run left.
Rerun ==
    /\ pc \in Terminal
    /\ builds < MaxBuilds
    /\ builds' = builds + 1
    /\ runs' = Append(runs, [resources |-> resources, pc |-> pc, exitCode |-> exitCode])
    /\ pc' = (IF entry = "main" THEN "Main" ELSE "Start")
    /\ manifest' = NoManifest
    /\ resources' = {}
    /\ todo' = <<>>
    /\ missing' = <<>>
    /\ error' = <<>>
    /\ stderr' = <<>>
    /\ exitCode' = -1
    /\ fs0' = fs
    /\ UNCHANGED <<fs, args>>

Next ==
    \/ ParseArgs
    \/ LoadManifest
    \/ CollectResources
    \/ ClearOutput
    \/ CopyNext
    \/ EndCopy
    \/ Finish
    \/ Rerun

Spec == Init /\ [][Next]_vars

TypeOK ==
    /\ pc \in {"Main", "Start", "ManifestLoaded", "ResourcesCollected",
               "OutputCleared", "FilesCopied"} \cup Terminal
    /\ exitCode \in {-1, 0, 1, 2}
    /\ Len(error) <= 1
    /\ Len(stderr) <= 1
    /\ builds \in 1..MaxBuilds

\* ================================================================ claims
\* The resource set of the current run has been resolved with an accepted mode.
Resolved ==
    /\ manifest # NoManifest
    /\ mode \in {"minimal", "full"}
    /\ pc \in {"ResourcesCollected", "OutputCleared", "FilesCopied",
               "Success", "Failed", "Crashed"}

\* The file of the repository at relative path rel exists.
InRepository(rel) == REPO_ROOT \o rel \in DOMAIN fs

\* The src/href values of an entry HTML file that are local (no "://", no
\* "data:" prefix) and resolve inside the repository root, as relative paths.
LocalRefs(h) ==
    {relative_to(Candidate(h, v)) :
        v \in {r \in Range(htmlAttrs[h]) :
                  /\ ~Contains(Chars[r], <<":", "/", "/">>)
                  /\ ~StartsWith(Chars[r], <<"d", "a", "t", "a", ":">>)
                  /\ InRepo(Candidate(h, r))}}

\* The files of the repository beneath the relative directory dir.
Beneath(dir) ==
    {relative_to(f) : f \in {g \in DOMAIN fs :
                                Len(g) > Len(REPO_ROOT \o dir) /\ StartsWith(g, REPO_ROOT \o dir)}}

\* No resolved path lies beneath the output directory, so the copies of
\* this run do not change which resources exist in the repository.
OutputApart == \A r \in resources : ~StartsWith(REPO_ROOT \o r, output)

\* C1: for every existing entry HTML file and every local reference in it
\* that has a component named assets, the resolved set (minimal or full)
\* contains every file beneath that assets directory, referenced or not.
AssetBundleComplete ==
    Resolved =>
        \A h \in {SidePanelHtml, OptionsHtml} :
            h \in DOMAIN fs =>
                \A ref \in LocalRefs(h) :
                    "assets" \in Range(ref) => Beneath(AssetDir(ref)) \subseteq resources

\* C1 witness: side-panel/index.html names assets/app.js only, and the
\* resolved set holds side-panel/assets/app.css.
AssetBundleWitness ==
    /\ Resolved
    /\ SidePanelHtml \in DOMAIN fs
    /\ <<"side-panel", "assets", "app.js">> \in LocalRefs(SidePanelHtml)
    /\ <<"side-panel", "assets", "app.css">> \notin LocalRefs(SidePanelHtml)
    /\ <<"side-panel", "assets", "app.css">> \in resources

\* The end-to-end scenario: its manifest, its repository, minimal mode, run
\* from the command line, first build.
Scenario ==
    /\ manifestDoc = ScenarioManifest
    /\ MANIFEST_PATH \in DOMAIN fs /\ fs[MANIFEST_PATH] = "json"
    /\ {relative_to(f) : f \in {g \in DOMAIN fs0 : InRepo(g) /\ ~StartsWith(g, output)}}
           = ScenarioFiles \cup {<<"manifest.json">>}
    /\ mode = "minimal"
    /\ entry = "main"
    /\ builds = 1

\* C2: in the end-to-end scenario the build exits with 0 and the output
\* directory contains manifest.json, bg.js, content.js, panel/index.html,
\* both files of panel/assets and a synthesized icon-32.png.
EndToEndScenario ==
    (Scenario /\ pc \in Terminal) =>
        /\ exitCode = 0
        /\ \A rel \in { <<"manifest.json">>, <<"bg.js">>, <<"content.js">>,
                        <<"panel", "index.html">>, <<"panel", "assets", "panel.abc.js">>,
                        <<"panel", "assets", "panel.abc.css">>, <<"icon-32.png">> } :
               output \o rel \in DOMAIN fs
        /\ fs[output \o <<"icon-32.png">>] = "png32"

\* The paths of the resolved set that are absent from the repository and
\* are not placeholder names.
MissingRequired ==
    {r \in resources : ~exists(REPO_ROOT \o r) /\ Name(r) \notin PlaceholderNames}

\* C3: the build fails exactly when a resolved path is absent from the
\* repository and is no placeholder name; then every path has been handed
\* to the copy, one error is raised, and it names exactly those paths.
FailFastAggregation ==
    (Resolved /\ OutputApart /\ pc \in Terminal) =>
        /\ (pc # "Success") <=> (MissingRequired # {})
        /\ pc # "Success" =>
              /\ todo = <<>>
              /\ Len(error) = 1
              /\ Range(error[1].paths) = MissingRequired
              /\ Len(error[1].paths) = Cardinality(MissingRequired)

\* C4: an absent path named icon-32.png or icon-128.png is never listed as
\* missing, gets a placeholder at the same relative path of the output
\* directory, and lets the build succeed when nothing else is missing; no
\* file of another name holds the placeholder.
PlaceholderFallback ==
    /\ \A f \in DOMAIN fs : fs[f] = "png32" => Name(f) \in PlaceholderNames
    /\ (Resolved /\ OutputApart /\ pc \in {"OutputCleared", "FilesCopied"} \cup Terminal) =>
          \A rel \in resources :
              (Name(rel) \in PlaceholderNames /\ ~exists(REPO_ROOT \o rel)
                  /\ rel \notin Range(todo)) =>
                  /\ rel \notin Range(missing)
                  /\ output \o rel \in DOMAIN fs
                  /\ fs[output \o rel] = "png32"
                  /\ (pc \in Terminal /\ MissingRequired = {}) => pc = "Success"

\* The web-accessible-resource patterns with a wildcard and a directory segment.
DirPatterns(m) ==
    {q \in Patterns(m) : HasWildcard(q) /\ Contains(Chars[q], <<"/">>)}

\* C5 as stated: in full mode a wildcard pattern with a directory segment
\* adds the same files as the pattern without the segment.
DirPatternActsAsBarePattern ==
    (Resolved /\ pc = "ResourcesCollected" /\ mode = "full") =>
        resources = minimal_resources(manifest) \cup
                    UNION {collect_pattern(IF q \in DirPatterns(manifest) THEN Bare(q) ELSE q) :
                              q \in Patterns(manifest)}

\* C5 amended: in full mode a wildcard pattern with a directory segment adds
\* no file at all, since a base name holds no "/"; the resolved set is just
\* what the minimal set and the other patterns give.
DirPatternAddsNothing ==
    (Resolved /\ pc = "ResourcesCollected" /\ mode = "full") =>
        resources = minimal_resources(manifest) \cup
                    UNION {collect_pattern(q) :
                              q \in Patterns(manifest) \ DirPatterns(manifest)}

\* C5 witness: icons/*.png is a pattern, icons/icon-128.png exists and is
\* not in the resolved set of a full-mode run.
DirPatternWitness ==
    /\ Resolved /\ pc = "ResourcesCollected" /\ mode = "full"
    /\ "icons/*.png" \in DirPatterns(manifest)
    /\ InRepository(<<"icons", "icon-128.png">>)
    /\ <<"icons", "icon-128.png">> \notin resources

\* The files of the repository tree whose base name matches the pattern.
BaseNameMatches(pattern) ==
    {relative_to(f) : f \in {g \in DOMAIN fs :
        /\ Len(g) > Len(REPO_ROOT) /\ StartsWith(g, REPO_ROOT)
        /\ fnmatch(Chars[Last(g)], Chars[pattern])}}

\* C6: in full mode every file of the tree whose base name matches a
\* wildcard pattern is resolved, whatever its directory; an entry without
\* wildcard adds its literal path exactly when it exists; nothing else is
\* added to the minimal set.
GlobScoping ==
    (Resolved /\ pc = "ResourcesCollected" /\ mode = "full") =>
        LET wild == {q \in Patterns(manifest) :
                        \E k \in 1..Len(Chars[q]) : Chars[q][k] \in {"*", "?"}}
            literal == Patterns(manifest) \ wild
        IN /\ \A q \in wild : BaseNameMatches(q) \subseteq resources
           /\ \A q \in literal : exists(REPO_ROOT \o PathOf(q)) => PathOf(q) \in resources
           /\ resources = minimal_resources(manifest)
                          \cup UNION {BaseNameMatches(q) : q \in wild}
                          \cup {PathOf(q) : q \in {l \in literal : exists(REPO_ROOT \o PathOf(l))}}

\* C6 witness: with pattern *.css and files a/b/x.css and y.css, a full-mode
\* run has resolved both.
GlobScopingWitness ==
    /\ Resolved /\ pc = "ResourcesCollected" /\ mode = "full"
    /\ "*.css" \in Patterns(manifest)
    /\ InRepository(<<"a", "b", "x.css">>) /\ InRepository(<<"y.css">>)
    /\ {<<"a", "b", "x.css">>, <<"y.css">>} \subseteq resources

\* C7: the process exits with 0 exactly when the build succeeds, and with 1
\* on a missing manifest, an invalid manifest, a mode other than minimal or
\* full on the command line, and a missing required resource.
ExitCodes ==
    (entry = "main" /\ pc \in Terminal) =>
        /\ (exitCode = 0) <=> (pc = "Success")
        /\ pc # "Success" => exitCode = 1

\* The local references of the entry HTML files that exist.
EntryRefs == UNION {LocalRefs(h) : h \in {g \in {SidePanelHtml, OptionsHtml} : g \in DOMAIN fs}}

PhaseEdges ==
    { <<"Start", "ManifestLoaded">>, <<"ManifestLoaded", "ResourcesCollected">>,
      <<"ResourcesCollected", "OutputCleared">>, <<"OutputCleared", "FilesCopied">>,
      <<"FilesCopied", "Success">>, <<"FilesCopied", "Failed">>,
      <<"Start", "Failed">>, <<"ManifestLoaded", "Failed">>,
      <<"Main", "Start">>, <<"Main", "Usage">> }
    \cup (Terminal \X {"Main", "Start"})

\* C9: a build run passes through Start, ManifestLoaded, ResourcesCollected,
\* OutputCleared, FilesCopied in that order and ends in Success or Failed; a
\* failure at manifest load or on an unknown mode leaves the output
\* directory as it was; in Failed after the copy phase the manifest copy and
\* every copied or synthesized file are still in the output directory.
BuildPhaseOrder ==
    [][ /\ pc' # pc => <<pc, pc'>> \in PhaseEdges
        /\ (pc' = "Failed" /\ pc \in {"Start", "ManifestLoaded"}) => fs' = fs0'
        /\ (pc' = "Failed" /\ pc = "FilesCopied") =>
              /\ output \o <<"manifest.json">> \in DOMAIN fs'
              /\ \A r \in resources' :
                     r \notin Range(missing') => output \o r \in DOMAIN fs'
      ]_vars

\* C10: a second build with the same manifest, mode and output directory,
\* and no source file changed, resolves the set the first build resolved,
\* resolves no path beneath the output directory, and succeeds when the
\* first build succeeded.
BuildIgnoresEarlierOutput ==
    (Resolved /\ builds > 1) =>
        /\ resources = runs[builds - 1].resources
        /\ \A r \in resources : ~StartsWith(REPO_ROOT \o r, output)
        /\ (pc \in Terminal /\ runs[builds - 1].pc = "Success") => pc = "Success"

====
